---- MODULE Spec2Model ----
(***************************************************************************)
(* A model of foxpass_mac_update.py: the generic REST client (Foxpass),    *)
(* the MAC-group client built on it (MacFoxpass) and the command-line      *)
(* driver (__main__).                                                      *)
(*                                                                         *)
(* Spec     : a constructed MacFoxpass object on which any operation is    *)
(*            called, any number of times, against a server that may       *)
(*            answer each request in any way.                              *)
(* MainSpec : one run of the script.                                       *)
(***************************************************************************)
EXTENDS Naturals, Sequences, FiniteSets, TLC

VARIABLES
    headers,        \* self.headers
    call,           \* the call made last (or running): its name and arguments
    pc,             \* where the running operation / the script is
    url,            \* all(): local url
    all_data,       \* all(): local all_data
    result,         \* what the last operation returned (or raised)
    reqs,           \* HTTP requests issued by the current operation / run
    resps,          \* the server's answers to them
    log,            \* log records emitted by the current operation / run
    environ,        \* os.environ (only FOXPASS_API_KEY matters)
    argv,           \* the command line, as what argparse makes of it
    logs_dir,       \* what the path "logs" is in the working directory
    args,           \* argparse's namespace (Pending before line 282 assigns it)
    file,           \* the lines of the input file, or NoFile
    mac_addresses,  \* __main__: mac_addresses
    todo,           \* __main__: the part of mac_addresses the loop has not visited
    calls,          \* __main__: the add_mac_entry calls made, as <<group, mac>>
    mac_group,      \* __main__: mac_group (Pending before line 302 assigns it)
    file_read,      \* __main__: whether the input file was opened
    api_key,        \* the credential the client was constructed with
    exit_code       \* <<status>> once the process has exited, <<>> before

vars == <<headers, call, pc, url, all_data, result, reqs, resps, log, api_key,
          environ, argv, logs_dir, args, file, mac_group, mac_addresses, todo,
          calls, file_read, exit_code>>

mainVars ==
    <<environ, argv, logs_dir, args, file, mac_group, mac_addresses, todo, calls,
      file_read, exit_code>>

----------------------------------------------------------------------------
(* Bounds *)

\* The most requests one call of all() issues before the model stops following it.
MaxRequests == 3
\* The most lines of an input file.
MaxLines == 4

----------------------------------------------------------------------------
(* Python values.  Every value carries its type, so that None, {} and [] are *)
(* three different results, as they are in Python.                          *)

None      == [t |-> "None"]
Str(s)    == [t |-> "str", v |-> s]
Bool(b)   == [t |-> "bool", v |-> b]
List(s)   == [t |-> "list", v |-> s]
Dict(f)   == [t |-> "dict", v |-> f]
EmptyDict == Dict(<<>>)
\* An exception that leaves the operation (requests raised: no HTTP response).
Raised    == [t |-> "raised"]
\* No result yet: the operation is still running.
Pending   == [t |-> "pending"]

\* Python's truth value of v (`while url:`, `if not mac_group:`).
Truthy(v) ==
    CASE v.t = "None" -> FALSE
      [] v.t = "str"  -> v.v # ""
      [] v.t = "bool" -> v.v
      [] v.t = "list" -> v.v # <<>>
      [] v.t = "dict" -> DOMAIN v.v # {}

\* dict.get(key, default)
DictGet(d, key, default) == IF key \in DOMAIN d.v THEN d.v[key] ELSE default

----------------------------------------------------------------------------
(* The HTTP layer: what `requests` is asked, and what it may answer.        *)

Request(method, u, hdrs, json) ==
    [method |-> method, url |-> u, headers |-> hdrs, json |-> json]

\* requests raised (connection refused, DNS failure, ...): no response object.
TransportError == [kind |-> "raise"]
Http(code, body) == [kind |-> "http", status_code |-> code, body |-> body]

Absent == [t |-> "absent"]
\* A JSON object with the keys status, data, next, each of which may be missing.
Envelope(st, da, nx) ==
    LET field == [k \in {"status", "data", "next"} |->
                    IF k = "status" THEN st ELSE IF k = "data" THEN da ELSE nx]
        keys  == {k \in {"status", "data", "next"} : field[k] # Absent}
    IN  Dict([k \in keys |-> field[k]])

Page2 == "https://api.foxpass.com/v1/mac_entries/?page=2"
Page3 == "https://api.foxpass.com/v1/mac_entries/?page=3"

\* The answers to a request of all(): a page (with or without data and next),
\* an application failure, an HTTP failure, or no answer at all.
PageResponses ==
    {TransportError, Http(404, Envelope(Str("error"), Absent, Absent))}
    \cup {Http(200, Envelope(Str("ok"), da, nx)) :
            da \in {List(<<"e1">>), List(<<"e2", "e3">>)},
            nx \in {Absent, Str(Page2), Str(Page3)}}
    \cup {Http(200, Envelope(Str("ok"), Absent, Absent)),
          Http(200, Envelope(Str("ok"), List(<<"e1">>), Str(""))),
          Http(200, Envelope(Absent, Absent, Absent)),
          Http(200, Envelope(Str("error"), List(<<"e1">>), Str(Page2)))}

\* The answers to a request about one item.
ItemResponses ==
    {TransportError, Http(404, Envelope(Str("error"), Absent, Absent))}
    \cup {Http(200, Envelope(Str("ok"), da, Absent)) :
            da \in {Absent, EmptyDict, Dict([name |-> Str("office")])}}
    \cup {Http(200, Envelope(Str("error"), Absent, Absent)),
          Http(200, Envelope(Str("error"), Dict([name |-> Str("office")]), Absent)),
          Http(200, Envelope(Absent, Dict([name |-> Str("office")]), Absent))}

----------------------------------------------------------------------------
(* class Foxpass *)

BASE_URL == "https://api.foxpass.com/v1/"

\* Foxpass.__init__: self.headers
InitHeaders(key) ==
    [accept |-> "application/json", Authorization |-> "Token " \o key]

\* A log record: its level and its message (without the interpolated values).
Record(level, msg) == <<level, msg>>
RequestFailed == "Request failed with status code"

\* What one call of a method did: the requests it issued, the value it returned,
\* the log records it emitted, and self.headers afterwards.
Outcome(req, res, lg, hdrs) ==
    [requests |-> <<req>>, result |-> res, log |-> lg, headers |-> hdrs]

\* all_iter with a page's data put in front of what was gathered (a wrong order).
all_iter_prepends(hdrs, u, data_so_far, resp) ==
    LET req == Request("GET", u.v, hdrs, None) IN
    IF resp.kind = "raise"
    THEN [request |-> req, url |-> u, all_data |-> data_so_far, log |-> <<>>,
          ends |-> "raise"]
    ELSE IF resp.status_code # 200
    THEN [request |-> req, url |-> u, all_data |-> data_so_far, log |-> <<>>,
          ends |-> "break"]
    ELSE IF DictGet(resp.body, "status", None) = Str("ok")
    THEN [request |-> req, url |-> DictGet(resp.body, "next", None),
          all_data |-> DictGet(resp.body, "data", List(<<>>)).v \o data_so_far,
          log |-> <<>>, ends |-> "next"]
    ELSE [request |-> req, url |-> u, all_data |-> data_so_far,
          log |-> <<Record("error", RequestFailed)>>, ends |-> "next"]

\* all_iter giving up what was gathered when a page fails (as get does: `return {}`).
all_iter_forgets(hdrs, u, data_so_far, resp) ==
    LET req == Request("GET", u.v, hdrs, None) IN
    IF resp.kind = "raise"
    THEN [request |-> req, url |-> u, all_data |-> data_so_far, log |-> <<>>,
          ends |-> "raise"]
    ELSE IF resp.status_code # 200
    THEN [request |-> req, url |-> u, all_data |-> <<>>, log |-> <<>>,
          ends |-> "break"]
    ELSE IF DictGet(resp.body, "status", None) = Str("ok")
    THEN [request |-> req, url |-> DictGet(resp.body, "next", None),
          all_data |-> data_so_far \o DictGet(resp.body, "data", List(<<>>)).v,
          log |-> <<>>, ends |-> "next"]
    ELSE [request |-> req, url |-> u, all_data |-> data_so_far,
          log |-> <<Record("error", RequestFailed)>>, ends |-> "next"]

\* all_iter leaving the loop on a 200 answer that is not "ok" (a `break` after
\* the logger.error of line 57).
all_iter_breaks(hdrs, u, data_so_far, resp) ==
    LET req == Request("GET", u.v, hdrs, None) IN
    IF resp.kind = "raise"
    THEN [request |-> req, url |-> u, all_data |-> data_so_far, log |-> <<>>,
          ends |-> "raise"]
    ELSE IF resp.status_code # 200
    THEN [request |-> req, url |-> u, all_data |-> data_so_far, log |-> <<>>,
          ends |-> "break"]
    ELSE IF DictGet(resp.body, "status", None) = Str("ok")
    THEN [request |-> req, url |-> DictGet(resp.body, "next", None),
          all_data |-> data_so_far \o DictGet(resp.body, "data", List(<<>>)).v,
          log |-> <<>>, ends |-> "next"]
    ELSE [request |-> req, url |-> u, all_data |-> data_so_far,
          log |-> <<Record("error", RequestFailed)>>, ends |-> "break"]

\* One pass of the `while url:` loop of Foxpass.all, given the server's answer:
\* the request, the new url and all_data, the log, and how the pass ends
\* ("raise": the exception leaves all(); "break"; "next": back to the test).
all_iter(hdrs, u, data_so_far, resp) ==
    LET req == Request("GET", u.v, hdrs, None) IN
    IF resp.kind = "raise"
    THEN [request |-> req, url |-> u, all_data |-> data_so_far, log |-> <<>>,
          ends |-> "raise"]
    ELSE IF resp.status_code # 200
    THEN [request |-> req, url |-> u, all_data |-> data_so_far, log |-> <<>>,
          ends |-> "break"]
    ELSE IF DictGet(resp.body, "status", None) = Str("ok")
    THEN [request |-> req, url |-> DictGet(resp.body, "next", None),
          all_data |-> data_so_far \o DictGet(resp.body, "data", List(<<>>)).v,
          log |-> <<>>, ends |-> "next"]
    ELSE [request |-> req, url |-> u, all_data |-> data_so_far,
          log |-> <<Record("error", RequestFailed)>>, ends |-> "next"]

\* Foxpass.get
get(hdrs, endpoint, item, resp) ==
    LET req == Request("GET", BASE_URL \o endpoint \o item, hdrs, None) IN
    IF resp.kind = "raise" THEN Outcome(req, Raised, <<>>, hdrs)
    ELSE IF resp.status_code # 200 THEN Outcome(req, EmptyDict, <<Record("debug", RequestFailed)>>, hdrs)
    ELSE IF DictGet(resp.body, "status", None) = Str("ok")
    THEN Outcome(req, DictGet(resp.body, "data", None), <<>>, hdrs)
    ELSE Outcome(req, None, <<>>, hdrs)

\* Foxpass.create, line 104: self.headers['Content-Type'] = 'application/json'
SetContentType(hdrs) ==
    [k \in DOMAIN hdrs \cup {"Content-Type"} |->
        IF k = "Content-Type" THEN "application/json" ELSE hdrs[k]]

\* Foxpass.create
create(hdrs, endpoint, data, resp) ==
    LET hdrs2 == SetContentType(hdrs)
        req   == Request("POST", BASE_URL \o endpoint, hdrs2, data)
    IN  IF resp.kind = "raise" THEN Outcome(req, Raised, <<>>, hdrs2)
        ELSE IF resp.status_code # 200
        THEN Outcome(req, EmptyDict, <<Record("debug", RequestFailed)>>, hdrs2)
        ELSE Outcome(req, resp.body, <<>>, hdrs2)

\* update sending its request a second time when the first answer is not 200.
update_retries(hdrs, endpoint, item, data, resp) ==
    LET req == Request("PUT", BASE_URL \o endpoint \o item, hdrs, data) IN
    IF resp.kind = "raise" THEN Outcome(req, Raised, <<>>, hdrs)
    ELSE IF resp.status_code # 200
    THEN [requests |-> <<req, req>>, result |-> None,
          log |-> <<Record("debug", RequestFailed)>>, headers |-> hdrs]
    ELSE Outcome(req, resp.body, <<>>, hdrs)

\* update setting Content-Type on the shared headers, as create does.
update_sets_content_type(hdrs, endpoint, item, data, resp) ==
    LET hdrs2 == SetContentType(hdrs)
        req   == Request("PUT", BASE_URL \o endpoint \o item, hdrs2, data)
    IN  IF resp.kind = "raise" THEN Outcome(req, Raised, <<>>, hdrs2)
        ELSE IF resp.status_code # 200
        THEN Outcome(req, None, <<Record("debug", RequestFailed)>>, hdrs2)
        ELSE Outcome(req, resp.body, <<>>, hdrs2)

\* Foxpass.update
update(hdrs, endpoint, item, data, resp) ==
    LET req == Request("PUT", BASE_URL \o endpoint \o item, hdrs, data) IN
    IF resp.kind = "raise" THEN Outcome(req, Raised, <<>>, hdrs)
    ELSE IF resp.status_code # 200 THEN Outcome(req, None, <<Record("debug", RequestFailed)>>, hdrs)
    ELSE Outcome(req, resp.body, <<>>, hdrs)

\* Foxpass.delete
delete(hdrs, endpoint, item, resp) ==
    LET req == Request("DELETE", BASE_URL \o endpoint \o item \o "/", hdrs, None) IN
    IF resp.kind = "raise" THEN Outcome(req, Raised, <<>>, hdrs)
    ELSE IF resp.status_code # 200 THEN Outcome(req, None, <<Record("debug", RequestFailed)>>, hdrs)
    ELSE Outcome(req, resp.body, <<>>, hdrs)

----------------------------------------------------------------------------
(* class MacFoxpass(Foxpass) *)

ENDPOINT == "mac_entries/"

add_mac_group(hdrs, group_name, resp) ==
    create(hdrs, ENDPOINT, Dict([name |-> Str(group_name)]), resp)

delete_mac_group(hdrs, group_name, resp) ==
    delete(hdrs, ENDPOINT, group_name, resp)

get_mac_group(hdrs, group_name, resp) ==
    get(hdrs, ENDPOINT, group_name, resp)

\* list_mac_groups: the endpoint it hands to self.all
list_mac_groups_endpoint == ENDPOINT

\* list_mac_entries: the endpoint it hands to self.all
list_mac_entries_endpoint(group_name) == ENDPOINT \o group_name \o "/prefixes/"

add_mac_entry(hdrs, group_name, mac_address, resp) ==
    update(hdrs, ENDPOINT, group_name \o "/prefixes/",
           Dict([prefix |-> Str(mac_address)]), resp)

\* delete_mac_entry calls self.delete and drops what it returns.
delete_mac_entry(hdrs, group_name, mac_address, resp) ==
    LET out == delete(hdrs, ENDPOINT \o group_name \o "/", mac_address, resp) IN
    [out EXCEPT !.result = IF out.result = Raised THEN Raised ELSE None]

is_mac_in_group(hdrs, group_name, mac_address, resp) ==
    LET req == Request("GET", BASE_URL \o ENDPOINT \o group_name \o "/prefixes/"
                               \o mac_address \o "/", hdrs, None) IN
    IF resp.kind = "raise" THEN Outcome(req, Raised, <<>>, hdrs)
    ELSE IF resp.status_code # 200 THEN Outcome(req, Bool(FALSE), <<Record("error", RequestFailed)>>, hdrs)
    ELSE IF DictGet(resp.body, "status", None) = Str("ok")
    THEN Outcome(req, Bool(TRUE), <<>>, hdrs)
    ELSE Outcome(req, Bool(FALSE), <<>>, hdrs)

----------------------------------------------------------------------------
(* Spec: the client as a library.  Each action is one call of one method,  *)
(* except all(), whose loop is followed one request at a time.             *)

ApiKeys == {"k1", "k2"}
Groups  == {"office", "lab"}
Macs    == {"aa:bb:cc:dd:ee:ff", "not-a-mac"}
\* What the generic verbs are called with when they are called directly.
Endpoints == {"users/"}
Items     == {"alice"}

\* The input file: missing, or its lines.
NoFile  == [exists |-> FALSE]
File(lines) == [exists |-> TRUE, lines |-> lines]

\* The driver's variables, untouched while the client is used as a library.
MainIdle ==
    /\ environ = <<>>
    /\ argv = <<>>
    /\ logs_dir = "directory"
    /\ args = <<>>
    /\ file = NoFile
    /\ mac_group = Pending
    /\ mac_addresses = <<>>
    /\ todo = <<>>
    /\ calls = <<>>
    /\ file_read = FALSE
    /\ exit_code = <<>>

\* MacFoxpass(api_key)
Init ==
    /\ api_key \in ApiKeys
    /\ headers = InitHeaders(api_key)
    /\ call = [name |-> "__init__", args |-> <<api_key>>]
    /\ pc = "idle"
    /\ url = None
    /\ all_data = <<>>
    /\ result = None
    /\ reqs = <<>>
    /\ resps = <<>>
    /\ log = <<>>
    /\ MainIdle

\* A call of a method that returns (or raises) after its request.
Returns(name, arguments, out, resp) ==
    /\ pc = "idle"
    /\ call' = [name |-> name, args |-> arguments]
    /\ pc' = "idle"
    /\ headers' = out.headers
    /\ result' = out.result
    /\ reqs' = out.requests
    /\ resps' = <<resp>>
    /\ log' = out.log
    /\ UNCHANGED <<url, all_data, api_key>>
    /\ UNCHANGED mainVars

\* Entry into all(endpoint), lines 41-44.  The first test of `while url:`
\* passes, url being BASE_URL followed by the endpoint.
Enters_all(name, arguments, endpoint) ==
    /\ pc = "idle"
    /\ call' = [name |-> name, args |-> arguments]
    /\ pc' = "all"
    /\ url' = Str(BASE_URL \o endpoint)
    /\ all_data' = <<>>
    /\ result' = Pending
    /\ reqs' = <<>>
    /\ resps' = <<>>
    /\ log' = <<>>
    /\ UNCHANGED <<headers, api_key>>
    /\ UNCHANGED mainVars

Call_all == \E endpoint \in Endpoints : Enters_all("all", <<endpoint>>, endpoint)

Call_list_mac_groups == Enters_all("list_mac_groups", <<>>, list_mac_groups_endpoint)

Call_list_mac_entries ==
    \E g \in Groups : Enters_all("list_mac_entries", <<g>>, list_mac_entries_endpoint(g))

\* Lines 45-57 and the `while url:` test that follows them, then line 58.
All_iter ==
    /\ pc = "all"
    /\ Len(reqs) < MaxRequests
    /\ \E resp \in PageResponses :
        LET it    == all_iter(headers, url, all_data, resp)
            leave == it.ends # "next" \/ ~Truthy(it.url)
        IN  /\ reqs' = Append(reqs, it.request)
            /\ resps' = Append(resps, resp)
            /\ log' = log \o it.log
            /\ pc' = IF leave THEN "idle" ELSE "all"
            /\ result' = IF it.ends = "raise" THEN Raised
                         ELSE IF leave THEN List(it.all_data) ELSE Pending
            \* the locals end with the call
            /\ url' = IF leave THEN None ELSE it.url
            /\ all_data' = IF leave THEN <<>> ELSE it.all_data
    /\ UNCHANGED <<headers, call, api_key>>
    /\ UNCHANGED mainVars

Call_get ==
    \E endpoint \in Endpoints, item \in Items, resp \in ItemResponses :
        Returns("get", <<endpoint, item>>, get(headers, endpoint, item, resp), resp)

Call_create ==
    \E endpoint \in Endpoints, g \in Items, resp \in ItemResponses :
        Returns("create", <<endpoint, Dict([name |-> Str(g)])>>,
                create(headers, endpoint, Dict([name |-> Str(g)]), resp), resp)

Call_update ==
    \E endpoint \in Endpoints, item \in Items, m \in Macs,
       resp \in ItemResponses :
        Returns("update", <<endpoint, item, Dict([prefix |-> Str(m)])>>,
                update(headers, endpoint, item, Dict([prefix |-> Str(m)]), resp), resp)

Call_delete ==
    \E endpoint \in Endpoints, item \in Items, resp \in ItemResponses :
        Returns("delete", <<endpoint, item>>, delete(headers, endpoint, item, resp), resp)

Call_add_mac_group ==
    \E g \in Groups, resp \in ItemResponses :
        Returns("add_mac_group", <<g>>, add_mac_group(headers, g, resp), resp)

Call_delete_mac_group ==
    \E g \in Groups, resp \in ItemResponses :
        Returns("delete_mac_group", <<g>>, delete_mac_group(headers, g, resp), resp)

Call_get_mac_group ==
    \E g \in Groups, resp \in ItemResponses :
        Returns("get_mac_group", <<g>>, get_mac_group(headers, g, resp), resp)

Call_add_mac_entry ==
    \E g \in Groups, m \in Macs, resp \in ItemResponses :
        Returns("add_mac_entry", <<g, m>>, add_mac_entry(headers, g, m, resp), resp)

Call_delete_mac_entry ==
    \E g \in Groups, m \in Macs, resp \in ItemResponses :
        Returns("delete_mac_entry", <<g, m>>,
                delete_mac_entry(headers, g, m, resp), resp)

Call_is_mac_in_group ==
    \E g \in Groups, m \in Macs, resp \in ItemResponses :
        Returns("is_mac_in_group", <<g, m>>,
                is_mac_in_group(headers, g, m, resp), resp)

Next ==
    \/ Call_all
    \/ Call_list_mac_groups
    \/ Call_list_mac_entries
    \/ All_iter
    \/ Call_get
    \/ Call_create
    \/ Call_update
    \/ Call_delete
    \/ Call_add_mac_group
    \/ Call_delete_mac_group
    \/ Call_get_mac_group
    \/ Call_add_mac_entry
    \/ Call_delete_mac_entry
    \/ Call_is_mac_in_group

Spec == Init /\ [][Next]_vars

----------------------------------------------------------------------------
(* Strings.  A string is the sequence of the code points of its characters, *)
(* so that every character a file can hold has a value here.               *)

\* The characters of the addresses and of the other lines: "-" (U+002D), the
\* digits and ":" (U+0030 to U+003A), and the letters (U+0041 to U+005A and
\* U+0061 to U+007A), each run in the order of its code points.
DigitsColon == << "0", "1", "2", "3", "4", "5", "6", "7", "8", "9", ":" >>
UpperCase   == << "A", "B", "C", "D", "E", "F", "G", "H", "I", "J", "K", "L", "M",
                 "N", "O", "P", "Q", "R", "S", "T", "U", "V", "W", "X", "Y", "Z" >>
LowerCase   == << "a", "b", "c", "d", "e", "f", "g", "h", "i", "j", "k", "l", "m",
                 "n", "o", "p", "q", "r", "s", "t", "u", "v", "w", "x", "y", "z" >>
CharCodes   == {45} \cup (48..58) \cup (65..90) \cup (97..122)

\* chr(n) and ord(c), for these characters.
Chr(n) ==
    CASE n = 45       -> "-"
      [] n \in 48..58  -> DigitsColon[n - 47]
      [] n \in 65..90  -> UpperCase[n - 64]
      [] n \in 97..122 -> LowerCase[n - 96]
Ord(c) == CHOOSE n \in CharCodes : Chr(n) = c

\* The code points of a string given as its characters.
Codes(q) == [i \in DOMAIN q |-> Ord(q[i])]

\* The string with the code points s.
RECURSIVE Join(_)
Join(s) == IF s = <<>> THEN "" ELSE Chr(Head(s)) \o Join(Tail(s))

\* The characters str.strip() removes, those for which str.isspace() holds:
\* U+0009 to U+000D, U+001C to U+001F, U+0020, U+0085, U+00A0, U+1680,
\* U+2000 to U+200A, U+2028, U+2029, U+202F, U+205F and U+3000.
Whitespace ==
    (9..13) \cup (28..32) \cup {133, 160, 5760} \cup (8192..8202)
        \cup {8232, 8233, 8239, 8287, 12288}

RECURSIVE LStrip(_)
LStrip(s) == IF s # <<>> /\ Head(s) \in Whitespace THEN LStrip(Tail(s)) ELSE s

RECURSIVE RStrip(_)
RStrip(s) ==
    IF s # <<>> /\ s[Len(s)] \in Whitespace THEN RStrip(SubSeq(s, 1, Len(s) - 1)) ELSE s

\* str.strip()
Strip(s) == RStrip(LStrip(s))

\* Line 309: [line.strip() for line in file if line.strip()]
RECURSIVE StrippedLines(_)
StrippedLines(lines) ==
    IF lines = <<>> THEN <<>>
    ELSE IF Strip(Head(lines)) # <<>>
         THEN <<Strip(Head(lines))>> \o StrippedLines(Tail(lines))
         ELSE StrippedLines(Tail(lines))

----------------------------------------------------------------------------
(* mac.MacAddress.  The module is not among the sources; it is modelled    *)
(* from the specification: six octets of two hex digits, separated by      *)
(* colons, by dashes or by nothing, in either case; the normal form is     *)
(* lower case, colon separated.                                            *)

HexLower == {Ord(c) : c \in {"0", "1", "2", "3", "4", "5", "6", "7", "8", "9",
                             "a", "b", "c", "d", "e", "f"}}
HexUpper == {Ord(c) : c \in {"A", "B", "C", "D", "E", "F"}}
IsHex(c) == c \in HexLower \cup HexUpper

\* The lower-case form of a hex digit.
Lower(c) == IF c \in HexUpper THEN c + (Ord("a") - Ord("A")) ELSE c

SepAt == {3, 6, 9, 12, 15}

\* Whether MacAddress(s) constructs (otherwise it raises ValueError).
IsMacAddress(s) ==
    \/ /\ Len(s) = 12
       /\ \A i \in 1..12 : IsHex(s[i])
    \/ /\ Len(s) = 17
       /\ \E sep \in {Ord(":"), Ord("-")} : \A i \in SepAt : s[i] = sep
       /\ \A i \in (1..17) \ SepAt : IsHex(s[i])

\* The twelve hex digits of a valid address, lower case.
HexDigitsOf(s) ==
    LET digits == IF Len(s) = 12 THEN s
                  ELSE [i \in 1..12 |-> s[i + ((i - 1) \div 2)]]
    IN  [i \in 1..12 |-> Lower(digits[i])]

\* MacAddress(s).mac_address
Normalized(s) ==
    LET h == HexDigitsOf(s) IN
    [i \in 1..17 |-> IF i \in SepAt THEN Ord(":") ELSE h[i - (i \div 3)]]

----------------------------------------------------------------------------
(* The lines of the input files.  Each ends with a line feed, U+000A.      *)

\* "aa:bb:cc:dd:ee:ff"
LineColon == Codes(<<"a", "a", ":", "b", "b", ":", "c", "c", ":", "d", "d", ":",
                     "e", "e", ":", "f", "f">>) \o <<10>>
\* "not-a-mac"
LineWords == Codes(<<"n", "o", "t", "-", "a", "-", "m", "a", "c">>) \o <<10>>
\* A blank line: a space, a form feed and an ideographic space (U+3000).
LineBlank == <<32, 12, 12288, 10>>
\* "1A-2B-3C-4D-5E-6f" between an ogham space mark (U+1680) in front and a
\* space, an em space (U+2003) and a form feed behind.
LineDash  == (<<5760>> \o Codes(<<"1", "A", "-", "2", "B", "-", "3", "C", "-", "4", "D", "-",
                                  "5", "E", "-", "6", "f">>)) \o <<32, 8195, 12, 10>>
Lines == {LineColon, LineWords, LineBlank, LineDash}

RECURSIVE SeqsUpTo(_, _)
SeqsUpTo(S, n) ==
    IF n = 0 THEN {<<>>}
    ELSE LET shorter == SeqsUpTo(S, n - 1) IN
         shorter \cup {Append(q, x) : q \in shorter, x \in S}

\* The input files: up to MaxLines lines.
Files == SeqsUpTo(Lines, MaxLines)

----------------------------------------------------------------------------
(* MainSpec: the script, lines 259-319.  An uncaught exception ends the    *)
(* process with a traceback and status 1 (pc = "crashed"); SystemExit(1)   *)
(* after a critical record is pc = "fatal"; falling off the end is         *)
(* pc = "done", status 0; argparse ending the process is pc = "exited".    *)
(* The --verbose flag only selects which records the handlers keep, and is *)
(* left out; log holds the records emitted.                                *)

\* The answers the script's requests get.
GroupResponses ==
    {TransportError, Http(404, Envelope(Str("error"), Absent, Absent)),
     Http(200, Envelope(Str("ok"), Dict([name |-> Str("office")]), Absent)),
     Http(200, Envelope(Str("ok"), EmptyDict, Absent)),
     Http(200, Envelope(Str("error"), Absent, Absent))}

EntryResponses ==
    {TransportError, Http(404, Envelope(Str("error"), Absent, Absent)),
     Http(200, Envelope(Str("ok"), Absent, Absent))}

Environs == {<<>>, [FOXPASS_API_KEY |-> "k1"]}

Namespaces ==
    [mac_group : {None, Str(""), Str("office")},
     mac_address_file : {None, Str("macs.txt")}]

\* A command line is given as what argparse makes of it: one it accepts, with
\* the namespace it gives; one with -h or --help; one it rejects (an option it
\* does not know, a positional argument, an option without its value).
Accepted(namespace) == [parse |-> "namespace", namespace |-> namespace]
HelpAsked == [parse |-> "help"]
Rejected  == [parse |-> "error"]
Argvs == {Accepted(n) : n \in Namespaces} \cup {HelpAsked, Rejected}

\* Line 282: parser.parse_args().  Help prints and exits with status 0,
\* parser.error() exits with status 2.
parse_args(command_line) ==
    CASE command_line.parse = "namespace" ->
            [exits |-> FALSE, namespace |-> command_line.namespace]
      [] command_line.parse = "help"  -> [exits |-> TRUE, status |-> <<0>>]
      [] command_line.parse = "error" -> [exits |-> TRUE, status |-> <<2>>]

\* What the path "logs" can be when the script starts: nothing, a directory the
\* user can write to, a directory the user cannot write to, a regular file (of
\* the user), a symbolic link to nothing.
LogsDirs == {"absent", "directory", "read-only directory", "file", "dangling link"}

\* utils.py line 15: os.path.exists(logs_dir) follows links.
path_exists(d) == d \in {"directory", "read-only directory", "file"}
\* utils.py line 18: os.access(logs_dir, os.W_OK)
access_W_OK(d) == d \in {"directory", "file"}
\* utils.py line 40: logging.FileHandler opens logs/<level>.log at once.
FileHandlerOpens(d) == d = "directory"

\* The info record of utils.py line 54.
LoggingIsSetUp  == "Logging is set up."

\* utils.py lines 6-54: setup_logging.  raised is the exception that leaves it,
\* or "" when it returns; logs_dir is the path afterwards.
setup_logging(d) ==
    IF ~path_exists(d) /\ d # "absent"
    THEN [raised |-> "FileExistsError", logs_dir |-> d, log |-> <<>>]
    ELSE LET made == IF path_exists(d) THEN d ELSE "directory" IN
         IF ~access_W_OK(made)
         THEN [raised |-> "PermissionError", logs_dir |-> made, log |-> <<>>]
         ELSE IF ~FileHandlerOpens(made)
         THEN [raised |-> "NotADirectoryError", logs_dir |-> made, log |-> <<>>]
         ELSE [raised |-> "", logs_dir |-> made,
               log |-> <<Record("info", LoggingIsSetUp)>>]

\* Line 289-290: os.environ['FOXPASS_API_KEY'] raises KeyError.
CredentialMissing(env) == "FOXPASS_API_KEY" \notin DOMAIN env

\* Line 296: `if args.mac_group:`
GroupRequested(a) == Truthy(a.mac_group)

\* The test of line 297 left out.
FileArgMissing_unchecked(a) == FALSE

\* Line 297: `if not args.mac_address_file:`
FileArgMissing(a) == ~Truthy(a.mac_address_file)

\* `if mac_group is None:` in the place of line 303.
GroupMissing_only_none(group) == group = None

\* Line 303: `if not mac_group:`
GroupMissing(group) == ~Truthy(group)

\* The critical messages of lines 291, 298 and 304.
SetTheKey       == "Please set the FOXPASS_API_KEY environment variable."
SpecifyTheFile  == "Please specify the filename containing the MAC addresses to add"
GroupNotExist   == "does not exist. Please create it first."
\* The warning of line 315.
NotValid        == "is not valid. Skipping."

\* The body of the loop, lines 312-319, for one address: the add_mac_entry
\* calls it makes (as <<group, mac>>), what they did, and whether an exception
\* leaves the loop.
loop_body(hdrs, group_name, mac_address, resp) ==
    IF ~IsMacAddress(mac_address)
    THEN [calls |-> <<>>, requests |-> <<>>, answered |-> <<>>, result |-> Pending,
          log |-> <<Record("warning", NotValid)>>, headers |-> hdrs,
          raises |-> FALSE]
    ELSE LET good_mac == Join(Normalized(mac_address))
             out      == add_mac_entry(hdrs, group_name, good_mac, resp)
         IN  [calls |-> <<(<<group_name, good_mac>>)>>, requests |-> out.requests,
              answered |-> <<resp>>, result |-> out.result, log |-> out.log,
              headers |-> out.headers, raises |-> out.result = Raised]

MainInit ==
    /\ environ \in Environs
    /\ argv \in Argvs
    /\ logs_dir \in LogsDirs
    /\ args = Pending
    /\ file \in {File(f) : f \in Files} \cup {NoFile}
    /\ api_key = ""
    /\ headers = <<>>
    /\ call = [name |-> "__main__", args |-> <<>>]
    /\ pc = "start"
    /\ url = None
    /\ all_data = <<>>
    /\ result = Pending
    /\ reqs = <<>>
    /\ resps = <<>>
    /\ log = <<>>
    /\ mac_group = Pending
    /\ mac_addresses = <<>>
    /\ todo = <<>>
    /\ calls = <<>>
    /\ file_read = FALSE
    /\ exit_code = <<>>

\* Lines 282-286: parse_args, which may end the process, then setup_logging,
\* which logs one info record or raises.
Main_setup ==
    /\ pc = "start"
    /\ LET parsed == parse_args(argv) IN
       IF parsed.exits
       THEN /\ pc' = "exited"
            /\ exit_code' = parsed.status
            /\ UNCHANGED <<args, logs_dir, log>>
       ELSE LET out == setup_logging(logs_dir) IN
            /\ args' = parsed.namespace
            /\ logs_dir' = out.logs_dir
            /\ log' = log \o out.log
            /\ IF out.raised # ""
               THEN pc' = "crashed" /\ exit_code' = <<1>>
               ELSE pc' = "environ" /\ UNCHANGED exit_code
    /\ UNCHANGED <<headers, call, url, all_data, result, reqs, resps, api_key>>
    /\ UNCHANGED <<environ, argv, file, mac_group, mac_addresses, todo, calls, file_read>>

\* Lines 288-294: the credential, then MacFoxpass(foxpass_api_key).
Main_environ ==
    /\ pc = "environ"
    /\ IF CredentialMissing(environ)
       THEN /\ log' = Append(log, Record("critical", SetTheKey))
            /\ pc' = "fatal"
            /\ exit_code' = <<1>>
            /\ UNCHANGED <<api_key, headers>>
       ELSE /\ api_key' = environ["FOXPASS_API_KEY"]
            /\ headers' = InitHeaders(environ["FOXPASS_API_KEY"])
            /\ pc' = "args"
            /\ UNCHANGED <<log, exit_code>>
    /\ UNCHANGED <<call, url, all_data, result, reqs, resps>>
    /\ UNCHANGED <<environ, argv, logs_dir, args, file, mac_group, mac_addresses, todo, calls, file_read>>

\* Lines 296-299.  Without --mac-group the script has nothing to do.
Main_args ==
    /\ pc = "args"
    /\ IF ~GroupRequested(args)
       THEN /\ pc' = "done"
            /\ exit_code' = <<0>>
            /\ UNCHANGED log
       ELSE IF FileArgMissing(args)
       THEN /\ log' = Append(log, Record("critical", SpecifyTheFile))
            /\ pc' = "fatal"
            /\ exit_code' = <<1>>
       ELSE /\ pc' = "get_mac_group"
            /\ UNCHANGED <<log, exit_code>>
    /\ UNCHANGED <<headers, call, url, all_data, result, reqs, resps, api_key>>
    /\ UNCHANGED <<environ, argv, logs_dir, args, file, mac_group, mac_addresses, todo, calls, file_read>>

\* Lines 301-305.
Main_get_mac_group ==
    /\ pc = "get_mac_group"
    /\ \E resp \in GroupResponses :
        LET out == get_mac_group(headers, args.mac_group.v, resp) IN
        /\ reqs' = reqs \o out.requests
        /\ resps' = Append(resps, resp)
        /\ result' = out.result
        /\ headers' = out.headers
        /\ IF out.result = Raised
           THEN /\ pc' = "crashed"
                /\ exit_code' = <<1>>
                /\ log' = log \o out.log
                /\ UNCHANGED mac_group
           ELSE /\ mac_group' = out.result
                /\ IF GroupMissing(out.result)
                   THEN /\ pc' = "fatal"
                        /\ exit_code' = <<1>>
                        /\ log' = (log \o out.log) \o <<Record("critical", GroupNotExist)>>
                   ELSE /\ pc' = "open"
                        /\ log' = log \o out.log
                        /\ UNCHANGED exit_code
    /\ UNCHANGED <<call, url, all_data, api_key>>
    /\ UNCHANGED <<environ, argv, logs_dir, args, file, mac_addresses, todo, calls, file_read>>

\* Lines 307-309.  open() raises when the file is not there.
Main_open ==
    /\ pc = "open"
    /\ IF ~file.exists
       THEN /\ pc' = "crashed"
            /\ exit_code' = <<1>>
            /\ UNCHANGED <<mac_addresses, todo, file_read>>
       ELSE /\ file_read' = TRUE
            /\ mac_addresses' = StrippedLines(file.lines)
            /\ todo' = StrippedLines(file.lines)
            /\ pc' = "for"
            /\ UNCHANGED exit_code
    /\ UNCHANGED <<headers, call, url, all_data, result, reqs, resps, log, api_key>>
    /\ UNCHANGED <<environ, argv, logs_dir, args, file, mac_group, calls>>

\* One pass of the loop of lines 311-319, for the next address.
Main_for ==
    /\ pc = "for"
    /\ todo # <<>>
    /\ \E resp \in EntryResponses :
        LET body == loop_body(headers, args.mac_group.v, Head(todo), resp) IN
        /\ calls' = calls \o body.calls
        /\ reqs' = reqs \o body.requests
        /\ resps' = resps \o body.answered
        /\ result' = IF body.calls = <<>> THEN result ELSE body.result
        /\ headers' = body.headers
        /\ log' = log \o body.log
        /\ IF body.raises
           THEN pc' = "crashed" /\ exit_code' = <<1>>
           ELSE pc' = "for" /\ UNCHANGED exit_code
    /\ todo' = Tail(todo)
    /\ UNCHANGED <<call, url, all_data, api_key>>
    /\ UNCHANGED <<environ, argv, logs_dir, args, file, mac_group, mac_addresses, file_read>>

\* The loop is exhausted: the script ends.
Main_end ==
    /\ pc = "for"
    /\ todo = <<>>
    /\ pc' = "done"
    /\ exit_code' = <<0>>
    /\ UNCHANGED <<headers, call, url, all_data, result, reqs, resps, log, api_key>>
    /\ UNCHANGED <<environ, argv, logs_dir, args, file, mac_group, mac_addresses, todo, calls, file_read>>

MainNext ==
    \/ Main_setup
    \/ Main_environ
    \/ Main_args
    \/ Main_get_mac_group
    \/ Main_open
    \/ Main_for
    \/ Main_end

MainSpec == MainInit /\ [][MainNext]_vars

----------------------------------------------------------------------------
(* Properties of Foxpass.all (specification Spec) *)

AllCalls == {"all", "list_mac_groups", "list_mac_entries"}

\* The endpoint a call of all() or of a listing method reads.
EndpointOf(c) ==
    CASE c.name = "all" -> c.args[1]
      [] c.name = "list_mac_groups" -> "mac_entries/"
      [] c.name = "list_mac_entries" -> "mac_entries/" \o c.args[1] \o "/prefixes/"

Is200(r) == r.kind = "http" /\ r.status_code = 200
IsNon200(r) == r.kind = "http" /\ r.status_code # 200
EnvelopeOk(r) == "status" \in DOMAIN r.body.v /\ r.body.v["status"] = Str("ok")
\* HTTP 200, envelope status "ok".
IsOkPage(r) == Is200(r) /\ EnvelopeOk(r)
\* HTTP 200, envelope status not "ok" (or missing).
IsNotOk200(r) == Is200(r) /\ ~EnvelopeOk(r)
\* The page carries a non-empty next.
HasNext(r) == "next" \in DOMAIN r.body.v /\ r.body.v["next"].v # ""
DataOf(r) == IF "data" \in DOMAIN r.body.v THEN r.body.v["data"].v ELSE <<>>

\* The data of the 200/"ok" pages among rs, in order.
RECURSIVE ConcatData(_)
ConcatData(rs) ==
    IF rs = <<>> THEN <<>>
    ELSE (IF IsOkPage(Head(rs)) THEN DataOf(Head(rs)) ELSE <<>>) \o ConcatData(Tail(rs))

CountIn(q, Test(_)) == Len(SelectSeq(q, Test))

\* C1: when every response of a call of all(endpoint) is a 200/"ok" page, pages
\* 1..n-1 carry a non-empty next and page n does not, the call has returned after
\* exactly n GET requests, the first to BASE_URL + endpoint and each later one to
\* the previous page's next, and its result is the pages' data, concatenated in
\* server order.
C1_AllReturnsAllPages ==
    LET n == Len(resps) IN
    ( /\ call.name \in AllCalls
      /\ n >= 1
      /\ \A i \in 1..n : IsOkPage(resps[i])
      /\ \A i \in 1..(n - 1) : HasNext(resps[i])
      /\ ~HasNext(resps[n]) )
    => /\ pc = "idle"
       /\ Len(reqs) = n
       /\ \A i \in 1..n : reqs[i].method = "GET" /\ reqs[i].headers = headers
       /\ reqs[1].url = "https://api.foxpass.com/v1/" \o EndpointOf(call)
       /\ \A i \in 2..n : reqs[i].url = resps[i - 1].body.v["next"].v
       /\ result = List(ConcatData(resps))

\* Three pages, e1 / e2 e3 / e1, read in order through page 2 and page 3.
C1_Witness ==
    /\ call.name = "list_mac_entries"
    /\ pc = "idle"
    /\ Len(resps) = 3
    /\ \A i \in 1..3 : IsOkPage(resps[i])
    /\ resps[1].body.v["next"] = Str(Page2)
    /\ resps[2].body.v["next"] = Str(Page3)
    /\ ~HasNext(resps[3])
    /\ result = List(<<"e1", "e2", "e3", "e1">>)

\* C2: when the k-th response of a call of all() has an HTTP status other than
\* 200, every earlier one being a 200/"ok" page with a next, the call has returned
\* after exactly k requests, and what it returned is the list of the data of pages
\* 1..k-1 (the empty list when k = 1), not an exception.
C2_AllReturnsPartialData ==
    \A k \in 1..Len(resps) :
        ( /\ call.name \in AllCalls
          /\ IsNon200(resps[k])
          /\ \A i \in 1..(k - 1) : IsOkPage(resps[i]) /\ HasNext(resps[i]) )
        => /\ pc = "idle"
           /\ Len(resps) = k
           /\ Len(reqs) = k
           /\ result = List(ConcatData(SubSeq(resps, 1, k - 1)))

\* Page 1 gave e2 e3, page 2 failed with 404.
C2_Witness ==
    /\ call.name \in AllCalls
    /\ pc = "idle"
    /\ Len(resps) = 2
    /\ IsOkPage(resps[1])
    /\ IsNon200(resps[2])
    /\ result = List(<<"e2", "e3">>)

IsErrorRecord(rec) == rec[1] = "error"

\* C8: in a call of all(), a 200 response whose envelope status is not "ok" is
\* logged as an error, adds nothing to the accumulated data and leaves the url as
\* it was: the next request, if the model follows the call that far, goes to the
\* same url, and as long as such a response is the last one the call has not
\* returned.  A call that returned a list did so after a non-200 response or after
\* a 200/"ok" page without a next.
C8_AllLoopsOnNotOk ==
    call.name \in AllCalls =>
        /\ \A i \in 1..Len(resps) :
              IsNotOk200(resps[i]) =>
                  IF i < Len(resps)
                  THEN reqs[i + 1].url = reqs[i].url
                  ELSE pc = "all" /\ result = Pending /\ url = Str(reqs[i].url)
        /\ pc = "all" => all_data = ConcatData(resps)
        /\ CountIn(log, IsErrorRecord) = CountIn(resps, IsNotOk200)
        /\ (pc = "idle" /\ result.t = "list") =>
              /\ resps # <<>>
              /\ \/ IsNon200(resps[Len(resps)])
                 \/ IsOkPage(resps[Len(resps)]) /\ ~HasNext(resps[Len(resps)])
              /\ result = List(ConcatData(resps))

\* Two 200 responses that are not "ok" (the first even carrying data and a next),
\* then the same url answers with a last page.
C8_Witness ==
    /\ call.name \in AllCalls
    /\ pc = "idle"
    /\ Len(resps) = 3
    /\ IsNotOk200(resps[1]) /\ "data" \in DOMAIN resps[1].body.v
    /\ IsNotOk200(resps[2])
    /\ reqs[3].url = reqs[1].url
    /\ result = List(<<"e1">>)

----------------------------------------------------------------------------
(* Properties of the single-request methods (specification Spec) *)

\* C5: a call of add_mac_entry(group, mac) issues exactly one request, whatever
\* the answer: a PUT to BASE_URL + mac_entries/ + <group>/prefixes/ with the JSON
\* payload {"prefix": mac} and the client's headers.
C5_AddMacEntryOnePut ==
    call.name = "add_mac_entry" =>
        /\ Len(reqs) = 1
        /\ reqs[1] = [method  |-> "PUT",
                      url     |-> "https://api.foxpass.com/v1/mac_entries/"
                                    \o call.args[1] \o "/prefixes/",
                      headers |-> headers,
                      json    |-> Dict([prefix |-> Str(call.args[2])])]

\* add_mac_entry("lab", "not-a-mac") answered 404: nothing returned, one request.
C5_Witness ==
    /\ call = [name |-> "add_mac_entry", args |-> <<"lab", "not-a-mac">>]
    /\ pc = "idle"
    /\ IsNon200(resps[1])
    /\ result = None

\* C6: is_mac_in_group returns a boolean whatever happens to its request, a
\* transport failure included, and returns true exactly when the answer is HTTP
\* 200 with envelope status "ok".
C6_IsMacInGroupNeverRaises ==
    call.name = "is_mac_in_group" =>
        /\ result \in {Bool(TRUE), Bool(FALSE)}
        /\ result = Bool(TRUE) <=> IsOkPage(resps[1])

\* C7: get (and so get_mac_group) returns the empty mapping on every HTTP answer
\* that is not 200, and on HTTP 200 without envelope status "ok"; on 200/"ok" it
\* returns the envelope's data.
C7_GetReturnsEmptyMapping ==
    (call.name \in {"get", "get_mac_group"} /\ resps[1].kind = "http") =>
        result = IF IsOkPage(resps[1])
                 THEN (IF "data" \in DOMAIN resps[1].body.v
                       THEN resps[1].body.v["data"] ELSE None)
                 ELSE EmptyDict

CreateCalls == {"create", "add_mac_group"}

\* accept and Authorization as __init__ set them, and nothing else but, possibly,
\* Content-Type: application/json.
HeadersKept ==
    /\ {"accept", "Authorization"} \subseteq DOMAIN headers
    /\ DOMAIN headers \subseteq {"accept", "Authorization", "Content-Type"}
    /\ headers["accept"] = "application/json"
    /\ headers["Authorization"] = "Token " \o api_key
    /\ "Content-Type" \in DOMAIN headers => headers["Content-Type"] = "application/json"

\* What a step does to the headers: a call of create (directly or through
\* add_mac_group) adds Content-Type: application/json, and changes nothing when it
\* is there already; every other step leaves the headers as they are.
HeadersStep ==
    IF pc = "idle" /\ call'.name \in CreateCalls
    THEN /\ DOMAIN headers' = DOMAIN headers \cup {"Content-Type"}
         /\ headers'["Content-Type"] = "application/json"
         /\ \A k \in DOMAIN headers : headers'[k] = headers[k]
         /\ "Content-Type" \in DOMAIN headers => headers' = headers
    ELSE headers' = headers

\* C9: after any sequence of calls the headers keep accept and Authorization as
\* set at construction; the only change ever made to them is create adding
\* Content-Type: application/json, once.
C9_HeadersOnlyGainContentType == []HeadersKept /\ [][HeadersStep]_vars

\* An update-based call made after a create: the headers carry Content-Type and
\* the credential given at construction.
C9_Witness ==
    /\ call.name = "add_mac_entry"
    /\ pc = "idle"
    /\ DOMAIN headers = {"accept", "Authorization", "Content-Type"}
    /\ headers["Authorization"] = "Token k2"
    /\ headers["Content-Type"] = "application/json"

----------------------------------------------------------------------------
(* Properties of the script (specification MainSpec) *)

IsPut(r) == r.method = "PUT"
IsCritical(rec) == rec[1] = "critical"
IsWarning(rec) == rec[1] = "warning"

\* get_mac_group has returned, and what it returned is falsy.
GroupNotFound == mac_group # Pending /\ mac_group \in {None, EmptyDict}

\* C3: when get_mac_group returned a falsy result the process has ended with
\* SystemExit(1) and has made no add_mac_entry call and sent no PUT, whatever the
\* file holds; and whenever an add_mac_entry call or a PUT has been made,
\* get_mac_group had returned a non-empty result before, its GET being the run's
\* first request.
C3_NoEntryWithoutGroup ==
    /\ GroupNotFound =>
          /\ pc = "fatal"
          /\ exit_code = <<1>>
          /\ calls = <<>>
          /\ CountIn(reqs, IsPut) = 0
    /\ (calls # <<>> \/ CountIn(reqs, IsPut) > 0) =>
          /\ mac_group # Pending
          /\ mac_group \notin {None, EmptyDict}
          /\ reqs[1].method = "GET"

\* The server answered 200 with a failing envelope, get_mac_group returned None,
\* and the file held two valid addresses.
C3_Witness ==
    /\ pc = "fatal"
    /\ mac_group = None
    /\ file = File(<<LineColon, LineDash>>)
    /\ calls = <<>>

\* A line with a character that is not whitespace.
NonBlank(l) == \E i \in 1..Len(l) : l[i] \notin Whitespace
ValidLine(l) == IsMacAddress(Strip(l))
\* The non-blank lines of the file the loop has visited.
Visited ==
    LET nb == SelectSeq(file.lines, NonBlank) IN
    SubSeq(nb, 1, Len(nb) - Len(todo))
\* One call per valid line, in order.
CallsFor(ls) ==
    LET valid == SelectSeq(ls, ValidLine) IN
    [i \in 1..Len(valid) |-> <<args.mac_group.v, Join(Normalized(Strip(valid[i])))>>]

\* The non-blank lines of the file.
NonBlankLines == SelectSeq(file.lines, NonBlank)

\* C4: once the group is known to exist, the add_mac_entry calls made are exactly
\* one per visited non-blank line that is a valid address, in file order, each
\* with its own PUT; the warnings are exactly one per visited invalid line; blank
\* lines give neither.  Nothing stops the loop before the last line: when the
\* run has ended, there is one call for every valid line of the file and one
\* warning for every invalid one.
C4_OneCallPerValidLine ==
    /\ ~file_read => calls = <<>> /\ CountIn(reqs, IsPut) = 0 /\ CountIn(log, IsWarning) = 0
    /\ file_read =>
          /\ pc \in {"for", "done", "crashed"}
          /\ Len(todo) <= Len(NonBlankLines)
          /\ calls = CallsFor(Visited)
          /\ CountIn(reqs, IsPut) = Len(calls)
          /\ \A i \in 1..Len(calls) :
                SelectSeq(reqs, IsPut)[i].json = Dict([prefix |-> Str(calls[i][2])])
          /\ CountIn(log, IsWarning) = Len(Visited) - Len(SelectSeq(Visited, ValidLine))
          /\ exit_code # <<>> =>
                /\ calls = CallsFor(NonBlankLines)
                /\ CountIn(log, IsWarning) =
                      Len(NonBlankLines) - Len(SelectSeq(NonBlankLines, ValidLine))

\* The file of the specification's example: the first PUT was answered 404, and
\* the second valid line was added all the same.
C4_Witness ==
    /\ pc = "done"
    /\ file = File(<<LineColon, LineWords, LineBlank, LineDash>>)
    /\ calls = << <<"office", "aa:bb:cc:dd:ee:ff">>, <<"office", "1a:2b:3c:4d:5e:6f">> >>
    /\ IsNon200(resps[2])
    /\ CountIn(log, IsWarning) = 1

KeyMissing == "FOXPASS_API_KEY" \notin DOMAIN environ
\* What the command line gave, once it is parsed.
GroupGiven == args # Pending /\ args.mac_group # None /\ args.mac_group.v # ""
FileGiven  == args # Pending /\ args.mac_address_file # None /\ args.mac_address_file.v # ""
\* The command line was parsed and logging was set up: the run reached line 288.
SetUp == log # <<>> /\ log[1] = <<"info", "Logging is set up.">>
\* The critical record the run ended with.
LastRecord == log[Len(log)]

\* C10, as stated: a run that ends on a fatal precondition exits with status 1
\* after exactly one critical record, and the preconditions are tested in the
\* order credential, file argument, group: without the credential, or with
\* --mac-group and no --mac-address-file, the run ends so and no request is ever
\* sent; with a group that does not exist exactly one request, the group's GET,
\* was sent and the file was not read.
C10_FatalPreconditionsInOrder ==
    /\ pc = "fatal" <=> CountIn(log, IsCritical) > 0
    /\ pc = "fatal" =>
          /\ exit_code = <<1>>
          /\ CountIn(log, IsCritical) = 1
          /\ IsCritical(LastRecord)
          /\ ~file_read
    /\ (KeyMissing /\ pc \notin {"start", "environ"}) =>
          /\ pc = "fatal"
          /\ LastRecord[2] = "Please set the FOXPASS_API_KEY environment variable."
          /\ reqs = <<>>
    /\ (~KeyMissing /\ GroupGiven /\ ~FileGiven /\ pc \notin {"start", "environ", "args"}) =>
          /\ pc = "fatal"
          /\ LastRecord[2] = "Please specify the filename containing the MAC addresses to add"
          /\ reqs = <<>>
    /\ GroupNotFound =>
          /\ pc = "fatal"
          /\ LastRecord[2] = "does not exist. Please create it first."
          /\ Len(reqs) = 1
          /\ reqs[1].method = "GET"
          /\ reqs[1].url = "https://api.foxpass.com/v1/mac_entries/" \o args.mac_group.v
          /\ ~file_read

\* C10, amended: the same of a run that has parsed its command line and set up
\* logging; a run that argparse ends (status 0 or 2) or that setup_logging ends
\* with an exception (status 1) emits no critical record.  In every run, without
\* the credential, or with --mac-group and no --mac-address-file, no request is
\* ever sent.
C10_FatalPreconditionsAfterSetup ==
    /\ pc = "fatal" <=> CountIn(log, IsCritical) > 0
    /\ pc = "fatal" =>
          /\ SetUp
          /\ exit_code = <<1>>
          /\ CountIn(log, IsCritical) = 1
          /\ IsCritical(LastRecord)
          /\ ~file_read
    /\ ~SetUp =>
          /\ pc \in {"start", "exited", "crashed"}
          /\ log = <<>>
          /\ reqs = <<>>
          /\ pc = "exited" => exit_code \in {<<0>>, <<2>>}
          /\ pc = "crashed" => exit_code = <<1>>
    /\ KeyMissing => reqs = <<>>
    /\ (SetUp /\ KeyMissing /\ pc # "environ") =>
          /\ pc = "fatal"
          /\ LastRecord[2] = "Please set the FOXPASS_API_KEY environment variable."
    /\ (GroupGiven /\ ~FileGiven) => reqs = <<>>
    /\ (SetUp /\ ~KeyMissing /\ GroupGiven /\ ~FileGiven /\ pc \notin {"environ", "args"}) =>
          /\ pc = "fatal"
          /\ LastRecord[2] = "Please specify the filename containing the MAC addresses to add"
    /\ GroupNotFound =>
          /\ pc = "fatal"
          /\ LastRecord[2] = "does not exist. Please create it first."
          /\ Len(reqs) = 1
          /\ reqs[1].method = "GET"
          /\ reqs[1].url = "https://api.foxpass.com/v1/mac_entries/" \o args.mac_group.v
          /\ ~file_read

\* Neither the credential nor the file argument is there: the run ends on the
\* credential, before any request.
C10_Witness ==
    /\ SetUp
    /\ pc = "fatal"
    /\ KeyMissing
    /\ GroupGiven
    /\ ~FileGiven
    /\ LastRecord = <<"critical", "Please set the FOXPASS_API_KEY environment variable.">>
    /\ reqs = <<>>

====
